---- MODULE Spec2Model ----
(***************************************************************************)
(* The credential pool (ApiKeyManager) and the fallback router             *)
(* (LLMGateway) of project/core/llm_gateway.                                *)
(*                                                                         *)
(* The program runs on one asyncio event loop: a task runs without         *)
(* interruption until it suspends.  The suspension points of a request are *)
(* the dequeue inside asyncio.wait_for(queue.get(), ...) and the provider  *)
(* client's network call; every action below is one run of a task from one *)
(* suspension point to the next.                                           *)
(***************************************************************************)
EXTENDS Integers, Sequences, FiniteSets, TLC

(* ------------------------------ bounds --------------------------------- *)

\* number of concurrent requests (each task issues one call)
NumTasks == 2

(* --------------------------- small helpers ----------------------------- *)

Range(s) == {s[i] : i \in DOMAIN s}

\* Python's  sub in s  for strings, strings being sequences of characters
Contains(sub, s) ==
    \E i \in 0..(Len(s) - Len(sub)) : SubSeq(s, i + 1, i + Len(sub)) = sub

LowerChar(c) ==
    CASE c = "A" -> "a"
      [] c = "P" -> "p"
      [] c = "I" -> "i"
      [] c = "K" -> "k"
      [] c = "E" -> "e"
      [] c = "Y" -> "y"
      [] OTHER -> c

\* str.lower()
Lower(s) == [i \in DOMAIN s |-> LowerChar(s[i])]

\* Dedup without the deduplication: the list as written in the file
DedupKeepsRepeats(s) == s

\* list(dict.fromkeys(keys)): drop repetitions, keep the first occurrence
RECURSIVE Dedup(_)
Dedup(s) ==
    IF s = <<>> THEN <<>>
    ELSE LET init == Dedup(SubSeq(s, 1, Len(s) - 1))
             last == s[Len(s)]
         IN  IF last \in Range(init) THEN init ELSE Append(init, last)

\* [key.strip() for key in keys_str.split(',') if key.strip()]; a blank entry
\* of the comma separated list is the empty string
NonBlank(s) == SelectSeq(s, LAMBDA k : k # "")

(* ------------------------- configuration ------------------------------- *)

Providers == {"google", "mistral", "cerebras"}

PROVIDER_MAP == {"google", "mistral", "groq", "cohere", "cerebras"}

\* the entries of MODELS_REGISTRY that the modelled groups use
MODELS_REGISTRY ==
    [m \in {"gemini-2.5-pro", "codestral-2501", "mistral-small-2501",
             "gpt-oss-120b", "llama-3.3-70b"} |->
        CASE m = "gemini-2.5-pro" -> "google"
          [] m = "codestral-2501" -> "mistral"
          [] m = "mistral-small-2501" -> "mistral"
          [] m = "gpt-oss-120b"   -> "cerebras"
          [] m = "llama-3.3-70b"  -> "cerebras"]

\* three of the groups; "gemini-2.5-flash-lite" of classic_reasoning has no
\* entry in MODELS_REGISTRY
MODEL_GROUPS ==
    [g \in {"coding_model_group", "classic_reasoning", "classic_secondary_reasoning"} |->
        CASE g = "coding_model_group" -> <<"gemini-2.5-pro", "codestral-2501">>
          [] g = "classic_reasoning" ->
                 <<"llama-3.3-70b", "gpt-oss-120b", "gemini-2.5-flash-lite",
                   "mistral-small-2501">>
          [] g = "classic_secondary_reasoning" -> <<"gpt-oss-120b", "llama-3.3-70b">>]

\* get_model_group answering an unknown name with a default group
get_model_group_default(g) ==
    IF g \in DOMAIN MODEL_GROUPS THEN MODEL_GROUPS[g] ELSE MODEL_GROUPS["coding_model_group"]

\* MODEL_GROUPS.get(group_name, [])
get_model_group(g) == IF g \in DOMAIN MODEL_GROUPS THEN MODEL_GROUPS[g] ELSE <<>>

\* group names a caller passes: two configured ones and an unknown one
GroupNames == {"coding_model_group", "classic_secondary_reasoning", "no_such_group"}

\* The .env.<provider> files: per provider the comma separated entries of its
\* *_API_KEYS line (a provider without a file has no entries).
EnvChoices ==
    { [p \in Providers |->
          CASE p = "cerebras" -> <<"c1", "c2", "c1">>
            [] p = "google"   -> <<"g1">>
            [] OTHER          -> <<>>],
      [p \in Providers |->
          CASE p = "cerebras" -> <<"c1">>
            [] p = "google"   -> <<"g1", "", "g2">>
            [] OTHER          -> <<"">>] }

(* ------------------------------ errors --------------------------------- *)

NoneKey == "None"

Err(type, msg) == [type |-> type, msg |-> msg]

NoError == Err("None", <<>>)

\* texts of the exceptions a provider client raises
ProviderMessages ==
    { <<"4", "0", "1">>,
      <<"e", "4", "0", "3">>,
      <<"a", "p", "i", " ", "k", "e", "y">>,
      <<"5", "0", "0">> }

\* is_auth_error testing for 401 only
is_auth_error_401_only(msg) == Contains(<<"4", "0", "1">>, msg)

\* is_auth_error taking every failure for an authentication failure
is_auth_error_always(msg) == TRUE

\* gateway.py line 100
is_auth_error(msg) ==
    \/ Contains(<<"4", "0", "1">>, msg)
    \/ Contains(<<"4", "0", "3">>, msg)
    \/ Contains(<<"A", "P", "I", " ", "k", "e", "y">>, Lower(msg))

(* ------------------------------- state --------------------------------- *)

VARIABLES
    env,                  \* contents of the .env.<provider> files
    initialized,          \* ApiKeyManager._initialized
    providers,            \* ApiKeyManager._providers: provider -> its queue
    retired,              \* <<provider, key>> logged as permanently retired
    gateway,              \* _llm_gateway_instance is not None
    loads,                \* runs of _load_keys_from_provider_env_files so far
    instances,            \* LLMGateway objects _get_gateway_instance has built
    pc,                   \* where each task is
    group,                \* model_group of the task's call
    idx,                  \* position of the for loop in model_priority_list
    available_providers,  \* snapshot taken at line 51
    api_key,              \* local api_key of the loop body
    last_error,           \* local last_error
    result,               \* what the call returned or raised
    events,               \* the events an @observable wrapper has published
    ready                 \* the event loop's queue of tasks ready to run Queue.get

vars == <<env, initialized, providers, retired, gateway, loads, instances,
          pc, group, idx, available_providers, api_key, last_error, result,
          events, ready>>

\* the gateway publishes nothing itself: events is with the state its
\* operations leave alone
pool == <<events, env, initialized, providers, retired, gateway, loads, instances>>

\* what a call has produced: nothing yet, the text of a model, or an exception
\* of class raises that carries (the text of) error
Pending == [status |-> "pending", raises |-> "None", error |-> NoError, model |-> "None"]

Returned(model) ==
    [status |-> "returned", raises |-> "None", error |-> NoError, model |-> model]

Raised(class, error) ==
    [status |-> "raised", raises |-> class, error |-> error, model |-> "None"]

\* the requests of a run: the tasks that call execute or LLMGateway.call
Tasks == DOMAIN pc

\* the state after the module-level construction of api_key_manager, before
\* any of the requests in T has started
InitEnv(T, E) ==
    /\ env \in E
    /\ initialized = FALSE
    /\ providers = << >>
    /\ retired = {}
    /\ gateway = FALSE
    /\ loads = 0
    /\ instances = 0
    /\ pc = [t \in T |-> "idle"]
    /\ group = [t \in T |-> "None"]
    /\ idx = [t \in T |-> 0]
    /\ available_providers = [t \in T |-> {}]
    /\ api_key = [t \in T |-> NoneKey]
    /\ last_error = [t \in T |-> NoError]
    /\ result = [t \in T |-> Pending]
    /\ events = [t \in T |-> <<>>]
    /\ ready = <<>>

InitWith(T) == InitEnv(T, EnvChoices)

Init == InitWith(1..NumTasks)

(* ---------------------- ApiKeyManager operations ----------------------- *)

\* asyncio.Queue: the items, and the tasks suspended in get() in arrival order
NewQueue == [keys |-> <<>>, getters |-> <<>>]

\* put_nowait placing the item in front of the queue
put_nowait_front(q, key) ==
    [keys |-> <<key>> \o q.keys,
     getters |-> IF q.getters = <<>> THEN <<>> ELSE Tail(q.getters)]

\* Queue.put_nowait: append the item, then _wakeup_next(self._getters)
put_nowait(q, key) ==
    [keys |-> Append(q.keys, key),
     getters |-> IF q.getters = <<>> THEN <<>> ELSE Tail(q.getters)]

\* get_nowait that hands out the first key without removing it
get_nowait_peek(q) == q

\* Queue.get_nowait
get_nowait(q) == [q EXCEPT !.keys = Tail(@)]

\* the tasks whose getter future a put on q completes
WokenBy(q) == IF q.getters = <<>> THEN {} ELSE {Head(q.getters)}

RECURSIVE PutAll(_, _)
PutAll(q, ks) == IF ks = <<>> THEN q ELSE PutAll(put_nowait(q, Head(ks)), Tail(ks))

\* the loader registering a queue for every provider, with or without keys
load_keys_registers_all(provs, e) ==
    [p \in Providers |->
        PutAll(IF p \in DOMAIN provs THEN provs[p] ELSE NewQueue, Dedup(NonBlank(e[p])))]

\* _load_keys_from_provider_env_files: a provider whose file yields at least
\* one key gets a queue unless it has one, and the keys are appended to it
load_keys(provs, e) ==
    [p \in DOMAIN provs \cup {x \in Providers : NonBlank(e[x]) # <<>>} |->
        IF NonBlank(e[p]) = <<>> THEN provs[p]
        ELSE PutAll(IF p \in DOMAIN provs THEN provs[p] ELSE NewQueue,
                    Dedup(NonBlank(e[p])))]

\* initialize_providers that loads whether or not _initialized is set
initialize_providers_unguarded(init, provs, n, e) ==
    [providers |-> load_keys(provs, e), loads |-> n + 1]

\* initialize_providers: the _providers dictionary after the call, and the
\* number of loads of the credential source there have been (n before the call)
initialize_providers(init, provs, n, e) ==
    IF init THEN [providers |-> provs, loads |-> n]
    ELSE [providers |-> load_keys(provs, e), loads |-> n + 1]

\* get_available_providers listing every known provider
get_available_providers_all(provs) == Providers

\* get_available_providers
get_available_providers(provs) == DOMAIN provs

\* the test of get_key without its emptiness half
NoKeysUnregisteredOnly(provs, p) == p \notin DOMAIN provs

\* the emptiness test of get_key (line 90)
NoKeys(provs, p) == p \notin DOMAIN provs \/ provs[p].keys = <<>>

\* release_key that re-queues the key whatever is_permanently_invalid says
release_key_requeues_invalid(provs, p, key, is_permanently_invalid) ==
    IF p \notin DOMAIN provs THEN provs
    ELSE [provs EXCEPT ![p].keys = Append(@, key)]

\* release_key that never re-queues the key
release_key_drops(provs, p, key, is_permanently_invalid) == provs

\* release_key putting the key into the queue of another provider
release_key_other_pool(provs, p, key, is_permanently_invalid) ==
    IF p \notin DOMAIN provs THEN provs
    ELSE IF is_permanently_invalid THEN provs
    ELSE LET q == IF DOMAIN provs = {p} THEN p
                  ELSE CHOOSE r \in DOMAIN provs : r # p
         IN  [provs EXCEPT ![q] = put_nowait(@, key)]

\* release_key: the _providers dictionary after the call
release_key(provs, p, key, is_permanently_invalid) ==
    IF p \notin DOMAIN provs THEN provs
    ELSE IF is_permanently_invalid THEN provs
    ELSE [provs EXCEPT ![p] = put_nowait(@, key)]

\* the tasks release_key wakes
ReleaseWakes(provs, p, is_permanently_invalid) ==
    IF p \notin DOMAIN provs \/ is_permanently_invalid THEN {} ELSE WokenBy(provs[p])

\* the keys release_key reports as permanently retired (line 106)
ReleaseRetires(provs, p, key, is_permanently_invalid) ==
    IF p \in DOMAIN provs /\ is_permanently_invalid THEN {<<p, key>>} ELSE {}

(* -------------------------- LLMGateway.call ---------------------------- *)

model_priority_list(t) == get_model_group(group[t])

\* the loop walking the list from its end
model_name_reversed(t) ==
    model_priority_list(t)[Len(model_priority_list(t)) + 1 - idx[t]]

model_name(t) == model_priority_list(t)[idx[t]]

provider(t) == MODELS_REGISTRY[model_name(t)]

\* pc after a step of task t that wakes the tasks in woken
SetPc(t, label, woken) ==
    [u \in Tasks |-> IF u = t THEN label
                     ELSE IF u \in woken THEN "getter_woken" ELSE pc[u]]

\* the frame of call is gone once it returns or raises: its locals are cleared
Return(t, res) ==
    /\ result' = [result EXCEPT ![t] = res]
    /\ idx' = [idx EXCEPT ![t] = 0]
    /\ available_providers' = [available_providers EXCEPT ![t] = {}]
    /\ api_key' = [api_key EXCEPT ![t] = NoneKey]
    /\ last_error' = [last_error EXCEPT ![t] = NoError]

\* lines 45-51 of call, on the pool as it is when the call starts
CallPrologue(t, g, provs) ==
    /\ group' = [group EXCEPT ![t] = g]
    /\ IF get_model_group(g) = <<>>
       THEN /\ pc' = [pc EXCEPT ![t] = "done"]
            /\ Return(t, Raised("ValueError", Err("ValueError", <<g>>)))
       ELSE /\ pc' = [pc EXCEPT ![t] = "loop"]
            /\ idx' = [idx EXCEPT ![t] = 1]
            /\ available_providers' =
                   [available_providers EXCEPT ![t] = get_available_providers(provs)]
            /\ UNCHANGED <<result, api_key, last_error>>

\* execute: _get_gateway_instance (which initializes the key manager when the
\* gateway does not exist yet), then gateway.call up to its loop
Execute(t, g) ==
    /\ pc[t] = "idle"
    /\ LET init == IF gateway THEN [providers |-> providers, loads |-> loads]
                   ELSE initialize_providers(initialized, providers, loads, env)
       IN  /\ providers' = init.providers
           /\ loads' = init.loads
           /\ initialized' = (initialized \/ ~gateway)
           /\ gateway' = TRUE
           /\ instances' = IF gateway THEN instances ELSE instances + 1
           /\ CallPrologue(t, g, init.providers)
    /\ UNCHANGED <<events, env, retired>>

\* LLMGateway(key_manager).call on a gateway constructed directly
Call(t, g) ==
    /\ pc[t] = "idle"
    /\ CallPrologue(t, g, providers)
    /\ UNCHANGED pool

\* the final exception without the last error
AllCandidatesExhaustedNoCause(last) == Raised("Exception", NoError)

\* line 107: the exception raised when the loop ends without a result
AllCandidatesExhausted(last) == Raised("Exception", last)

\* the key error leaves call instead of being caught at lines 92-95
KeyErrorPropagates(t, e, woken) ==
    /\ last_error' = [last_error EXCEPT ![t] = e]
    /\ pc' = SetPc(t, "done", woken)
    /\ result' = [result EXCEPT ![t] = Raised(e.type, e)]
    /\ UNCHANGED idx

\* the key error handled by trying the same candidate again
KeyErrorRetries(t, e, woken) ==
    /\ last_error' = [last_error EXCEPT ![t] = e]
    /\ pc' = SetPc(t, "loop", woken)
    /\ UNCHANGED <<idx, result>>

\* lines 92-95: a key error e of get_key is recorded and the loop continues
KeyErrorHandler(t, e, woken) ==
    /\ last_error' = [last_error EXCEPT ![t] = e]
    /\ idx' = [idx EXCEPT ![t] = @ + 1]
    /\ pc' = SetPc(t, "loop", woken)
    /\ UNCHANGED result

\* One pass of the for loop up to the emptiness test of get_key (lines 53-71
\* and 85-91), or the raise after the loop (line 107).
\* an unknown model name ending the request
UnknownModelAborts(t) ==
    /\ pc' = [pc EXCEPT ![t] = "done"]
    /\ Return(t, Raised("ValueError", Err("ValueError", <<model_name(t)>>)))
    /\ UNCHANGED pool

\* lines 57-59: no configuration for the model name, continue
UnknownModelSkip(t) ==
    /\ idx' = [idx EXCEPT ![t] = @ + 1]
    /\ UNCHANGED <<pool, pc, api_key, last_error, result, available_providers>>

\* the availability check leaving the decision to get_key
UnavailableProviderAsksForKey(t) ==
    /\ idx' = [idx EXCEPT ![t] = @ + 1]
    /\ last_error' = [last_error EXCEPT ![t] =
                         Err("NoKeysAvailableError", <<provider(t)>>)]
    /\ UNCHANGED <<pool, pc, api_key, result, available_providers>>

\* lines 64-66: the provider is not among the available ones, continue
UnavailableProviderSkip(t) ==
    /\ idx' = [idx EXCEPT ![t] = @ + 1]
    /\ UNCHANGED <<pool, pc, api_key, last_error, result, available_providers>>

NextModel(t) ==
    /\ pc[t] = "loop"
    /\ IF idx[t] > Len(model_priority_list(t))
       THEN /\ pc' = [pc EXCEPT ![t] = "done"]
            /\ Return(t, AllCandidatesExhausted(last_error[t]))
            /\ UNCHANGED pool
       ELSE IF model_name(t) \notin DOMAIN MODELS_REGISTRY
       THEN UnknownModelSkip(t)
       ELSE IF provider(t) \notin available_providers[t]
       THEN UnavailableProviderSkip(t)
       ELSE LET init == initialize_providers(initialized, providers, loads, env)
            IN  /\ api_key' = [api_key EXCEPT ![t] = NoneKey]
                /\ providers' = init.providers
                /\ loads' = init.loads
                /\ initialized' = TRUE
                /\ IF NoKeys(init.providers, provider(t))
                   THEN KeyErrorHandler(t, Err("NoKeysAvailableError", <<provider(t)>>), {})
                   ELSE /\ pc' = [pc EXCEPT ![t] = "wait_for"]
                        /\ UNCHANGED <<idx, last_error, result>>
                /\ UNCHANGED <<events, env, retired, gateway, instances, available_providers>>
    /\ UNCHANGED group

\* get_key returned key to task t (line 71): lines 73-87 up to the await of
\* client.make_request; an unsupported provider raises ValueError, which the
\* handler of lines 97-105 treats like any provider error.
GotKey(t, key, provs) ==
    /\ api_key' = [api_key EXCEPT ![t] = key]
    /\ IF provider(t) \in PROVIDER_MAP
       THEN /\ providers' = provs
            /\ pc' = [pc EXCEPT ![t] = "make_request"]
            /\ UNCHANGED <<idx, last_error, retired>>
       ELSE LET msg == <<"n", "o", "t", " ", "s", "u", "p", "p", "o", "r", "t", "e", "d">>
                p == provider(t)
            IN  /\ providers' = release_key(provs, p, key, is_auth_error(msg))
                /\ retired' = retired \cup ReleaseRetires(provs, p, key, is_auth_error(msg))
                /\ pc' = SetPc(t, "loop", ReleaseWakes(provs, p, is_auth_error(msg)))
                /\ last_error' = [last_error EXCEPT ![t] = Err("ValueError", msg)]
                /\ idx' = [idx EXCEPT ![t] = @ + 1]

\* a dequeue that fails at once when it finds the queue empty (get_nowait)
QueueGetNoWait(t) ==
    /\ pc[t] \in {"wait_for", "getter_woken"}
    /\ LET p == provider(t)
           q == providers[p]
       IN  IF q.keys = <<>>
           THEN /\ KeyErrorHandler(t, Err("NoKeysAvailableError", <<p>>), {})
                /\ UNCHANGED <<providers, api_key, retired>>
           ELSE /\ GotKey(t, Head(q.keys), [providers EXCEPT ![p] = get_nowait(@)])
                /\ (provider(t) \in PROVIDER_MAP => UNCHANGED retired)
    /\ UNCHANGED <<events, env, initialized, gateway, loads, instances, group,
                   available_providers, result>>

\* Queue.get under wait_for (line 96): take the first key, or suspend as a getter
QueueGet(t) ==
    /\ pc[t] \in {"wait_for", "getter_woken"}
    /\ LET p == provider(t)
           q == providers[p]
       IN  IF q.keys = <<>>
           THEN /\ providers' = [providers EXCEPT ![p].getters = Append(@, t)]
                /\ pc' = [pc EXCEPT ![t] = "getter_wait"]
                /\ UNCHANGED <<api_key, idx, last_error, retired>>
           ELSE /\ GotKey(t, Head(q.keys), [providers EXCEPT ![p] = get_nowait(@)])
                /\ (provider(t) \in PROVIDER_MAP => UNCHANGED retired)
    /\ UNCHANGED <<events, env, initialized, gateway, loads, instances, group,
                   available_providers, result>>

\* The timeout of wait_for elapses while the task is suspended in Queue.get:
\* the getter is withdrawn; if it had been woken, the wake-up is passed on.
GetKeyTimeout(t) ==
    /\ pc[t] \in {"getter_wait", "getter_woken"}
    /\ LET p == provider(t)
           q == providers[p]
           passOn == IF pc[t] = "getter_woken" /\ q.keys # <<>> THEN WokenBy(q) ELSE {}
       IN  /\ providers' = [providers EXCEPT ![p].getters =
                   SelectSeq(@, LAMBDA u : u # t /\ u \notin passOn)]
           /\ KeyErrorHandler(t, Err("GetKeyTimeoutError", <<p>>), passOn)
    /\ UNCHANGED <<events, env, initialized, retired, gateway, loads, instances, group,
                   available_providers, api_key>>

\* client.make_request returned (lines 87-90)
RequestSuccess(t) ==
    /\ pc[t] = "make_request"
    /\ LET p == provider(t)
       IN  /\ providers' = release_key(providers, p, api_key[t], FALSE)
           /\ pc' = SetPc(t, "done", ReleaseWakes(providers, p, FALSE))
    /\ Return(t, Returned(model_name(t)))
    /\ UNCHANGED <<events, env, initialized, retired, gateway, loads, instances, group>>

\* client.make_request raised an exception with text msg (lines 97-105)
RequestFail(t, msg) ==
    /\ pc[t] = "make_request"
    /\ LET p == provider(t)
           invalid == is_auth_error(msg)
       IN  /\ providers' = release_key(providers, p, api_key[t], invalid)
           /\ retired' = retired \cup ReleaseRetires(providers, p, api_key[t], invalid)
           /\ pc' = SetPc(t, "loop", ReleaseWakes(providers, p, invalid))
    /\ last_error' = [last_error EXCEPT ![t] = Err("IOError", msg)]
    /\ idx' = [idx EXCEPT ![t] = @ + 1]
    /\ UNCHANGED <<events, env, initialized, gateway, loads, instances, group,
                   available_providers, api_key, result>>

\* _release_quarantined_keys_periodically: wakes every 60 s and does nothing
ReleaseQuarantinedTick ==
    /\ initialized
    /\ UNCHANGED vars

Next ==
    \/ \E t \in Tasks, g \in GroupNames : Execute(t, g) /\ UNCHANGED ready
    \/ \E t \in Tasks, g \in GroupNames : Call(t, g) /\ UNCHANGED ready
    \/ \E t \in Tasks : NextModel(t) /\ UNCHANGED ready
    \/ \E t \in Tasks : QueueGet(t) /\ UNCHANGED ready
    \/ \E t \in Tasks : GetKeyTimeout(t) /\ UNCHANGED ready
    \/ \E t \in Tasks : RequestSuccess(t) /\ UNCHANGED ready
    \/ \E t \in Tasks, msg \in ProviderMessages : RequestFail(t, msg) /\ UNCHANGED ready
    \/ ReleaseQuarantinedTick

Spec == Init /\ [][Next]_vars

\* What the environment of a request guarantees: the loop of call goes on,
\* Queue.get runs once scheduled, wait_for ends a wait that lasts
\* GET_KEY_TIMEOUT_SECONDS, and client.make_request returns or raises.
Progress(t) ==
    /\ WF_vars(NextModel(t) /\ UNCHANGED ready)
    /\ WF_vars(QueueGet(t) /\ UNCHANGED ready)
    /\ WF_vars(GetKeyTimeout(t) /\ UNCHANGED ready)
    /\ WF_vars((RequestSuccess(t) \/ \E msg \in ProviderMessages : RequestFail(t, msg))
                   /\ UNCHANGED ready)

SpecFair == Init /\ [][Next]_vars /\ \A t \in 1..NumTasks : Progress(t)

(* Scenario B: the provider of the group has 2 credentials, every request   *)
(* comes through execute for that group, every provider call succeeds and   *)
(* no checkout wait reaches its timeout.                                    *)

ScenarioBGroup == "classic_secondary_reasoning"

\* the three concurrent execute calls of the scenario
ScenarioBTasks == {1, 2, 3}

InitB ==
    /\ InitWith(ScenarioBTasks)
    /\ Len(Dedup(NonBlank(env["cerebras"]))) = 2

NextB ==
    \/ \E t \in Tasks : Execute(t, ScenarioBGroup) /\ UNCHANGED ready
    \/ \E t \in Tasks : NextModel(t) /\ UNCHANGED ready
    \/ \E t \in Tasks : QueueGet(t) /\ UNCHANGED ready
    \/ \E t \in Tasks : RequestSuccess(t) /\ UNCHANGED ready
    \/ ReleaseQuarantinedTick

SpecB == InitB /\ [][NextB]_vars

(* ---------- a group with a model name unknown to the registry ---------- *)

ScenarioDGroup == "classic_reasoning"

\* one cerebras key, one mistral key, no google file
ScenarioDEnv ==
    [p \in Providers |->
        CASE p = "cerebras" -> <<"c1">>
          [] p = "mistral"  -> <<"m1">>
          [] OTHER          -> <<>>]

ScenarioDTasks == {1, 2}

InitD == InitEnv(ScenarioDTasks, {ScenarioDEnv})

NextD ==
    \/ \E t \in Tasks : Execute(t, ScenarioDGroup) /\ UNCHANGED ready
    \/ \E t \in Tasks : NextModel(t) /\ UNCHANGED ready
    \/ \E t \in Tasks : QueueGet(t) /\ UNCHANGED ready
    \/ \E t \in Tasks : GetKeyTimeout(t) /\ UNCHANGED ready
    \/ \E t \in Tasks : RequestSuccess(t) /\ UNCHANGED ready
    \/ \E t \in Tasks, msg \in ProviderMessages : RequestFail(t, msg) /\ UNCHANGED ready
    \/ ReleaseQuarantinedTick

SpecD == InitD /\ [][NextD]_vars

(* ---- four requests contending for the two keys of a provider, with  ---- *)
(* ---- the event loop running its ready callbacks in FIFO order        ---- *)

ScenarioETasks == {1, 2, 3, 4}

InitE ==
    /\ InitWith(ScenarioETasks)
    /\ Len(Dedup(NonBlank(env["cerebras"]))) = 2

\* the Queue.get of task t is ready to run: the task wait_for made of it has
\* not started yet, or the future it awaited has been completed by a put
Runnable(pcs, t) == pcs[t] \in {"wait_for", "getter_woken"}

\* no task is between two suspension points: a task that is at the head of
\* the loop of call goes on before any other callback runs
NoneRunning == \A u \in Tasks : pc[u] # "loop"

\* the callback of task t is the next one the event loop runs
RunsNext(t) ==
    /\ NoneRunning
    /\ ready # <<>>
    /\ t = Head(ready)

\* call_soon: callbacks run in the order in which they were registered; the
\* step of task t registers the Queue.get it made ready to run
Schedule(t) ==
    LET new == {u \in Tasks : Runnable(pc', u) /\ ~Runnable(pc, u)}
    IN  ready' = SelectSeq(ready, LAMBDA u : u # t)
                    \o (IF new = {} THEN <<>> ELSE <<CHOOSE u \in new : TRUE>>)

\* an outside event makes task t ready: the request is submitted, or the
\* provider has answered the request that awaits client.make_request
Arrive(t) ==
    /\ NoneRunning
    /\ pc[t] \in {"idle", "make_request"}
    /\ t \notin Range(ready)
    /\ ready' = Append(ready, t)
    /\ UNCHANGED <<pool, pc, group, idx, available_providers, api_key, last_error, result>>

NextE ==
    \/ \E t \in Tasks : Arrive(t)
    \/ \E t \in Tasks : RunsNext(t) /\ Execute(t, ScenarioBGroup) /\ Schedule(t)
    \/ \E t \in Tasks : NextModel(t) /\ Schedule(t)
    \/ \E t \in Tasks : RunsNext(t) /\ QueueGet(t) /\ Schedule(t)
    \/ \E t \in Tasks : RunsNext(t) /\ RequestSuccess(t) /\ Schedule(t)
    \/ \E t \in Tasks : RunsNext(t) /\ RequestFail(t, <<"5", "0", "0">>) /\ Schedule(t)
    \/ ReleaseQuarantinedTick

SpecE == InitE /\ [][NextE]_vars

(* ------------- direct callers of the ApiKeyManager methods ------------- *)

\* the longest queue the repeated release_key calls may build
MaxQueue == 3

\* the provider whose .env file holds key (the files of EnvChoices share none)
ProviderOf(key) == CHOOSE p \in Providers : key \in Range(env[p])

\* await api_key_manager.initialize_providers() called directly (lines 72-79)
InitializeProviders ==
    /\ LET init == initialize_providers(initialized, providers, loads, env)
       IN  /\ providers' = init.providers
           /\ loads' = init.loads
    /\ initialized' = TRUE
    /\ UNCHANGED <<events, env, retired, gateway, instances, pc, group, idx,
                   available_providers, api_key, last_error, result>>

\* await api_key_manager.get_key(p) called directly (lines 85-98): it raises
\* NoKeysAvailableError (lines 90-91), or Queue.get returns the first key
GetKey(t, p) ==
    /\ pc[t] = "idle"
    /\ LET init == initialize_providers(initialized, providers, loads, env)
       IN  /\ loads' = init.loads
           /\ IF NoKeys(init.providers, p)
              THEN /\ providers' = init.providers
                   /\ pc' = [pc EXCEPT ![t] = "done"]
                   /\ Return(t, Raised("NoKeysAvailableError",
                                       Err("NoKeysAvailableError", <<p>>)))
              ELSE /\ providers' = [init.providers EXCEPT ![p] = get_nowait(@)]
                   /\ api_key' = [api_key EXCEPT ![t] = Head(init.providers[p].keys)]
                   /\ pc' = [pc EXCEPT ![t] = "holds_key"]
                   /\ UNCHANGED <<idx, available_providers, last_error, result>>
    /\ initialized' = TRUE
    /\ UNCHANGED <<events, env, retired, gateway, instances, group>>

\* await api_key_manager.release_key(p, key, is_permanently_invalid) called
\* directly (lines 100-108) by the task that got key from get_key
ReleaseKey(t, is_permanently_invalid) ==
    /\ pc[t] = "holds_key"
    /\ LET p == ProviderOf(api_key[t])
       IN  /\ providers' = release_key(providers, p, api_key[t], is_permanently_invalid)
           /\ retired' = retired \cup
                   ReleaseRetires(providers, p, api_key[t], is_permanently_invalid)
           /\ pc' = SetPc(t, "released", ReleaseWakes(providers, p, is_permanently_invalid))
    /\ UNCHANGED <<events, env, initialized, gateway, loads, instances, group, idx,
                   available_providers, api_key, last_error, result>>

\* a further release_key call for a key whose release_key call has been made
ReleaseKeyAgain(t, is_permanently_invalid) ==
    /\ pc[t] = "released"
    /\ LET p == ProviderOf(api_key[t])
       IN  /\ Len(providers[p].keys) < MaxQueue
           /\ providers' = release_key(providers, p, api_key[t], is_permanently_invalid)
           /\ retired' = retired \cup
                   ReleaseRetires(providers, p, api_key[t], is_permanently_invalid)
           /\ pc' = SetPc(t, "released", ReleaseWakes(providers, p, is_permanently_invalid))
    /\ UNCHANGED <<events, env, initialized, gateway, loads, instances, group, idx,
                   available_providers, api_key, last_error, result>>

NextKM ==
    \/ InitializeProviders /\ UNCHANGED ready
    \/ \E t \in Tasks, p \in Providers : GetKey(t, p) /\ UNCHANGED ready
    \/ \E t \in Tasks, inv \in BOOLEAN : ReleaseKey(t, inv) /\ UNCHANGED ready
    \/ \E t \in Tasks, inv \in BOOLEAN : ReleaseKeyAgain(t, inv) /\ UNCHANGED ready
    \/ ReleaseQuarantinedTick

\* tasks that call get_key and release_key themselves
SpecKM == Init /\ [][NextKM]_vars

\* first use of the key manager and of the gateway singleton from every
\* entry point: execute, call, get_key and initialize_providers
NextInit ==
    \/ InitializeProviders /\ UNCHANGED ready
    \/ \E t \in Tasks, p \in Providers : GetKey(t, p) /\ UNCHANGED ready
    \/ \E t \in Tasks : ReleaseKey(t, FALSE) /\ UNCHANGED ready
    \/ \E t \in Tasks, g \in GroupNames : Execute(t, g) /\ UNCHANGED ready
    \/ \E t \in Tasks, g \in GroupNames : Call(t, g) /\ UNCHANGED ready
    \/ \E t \in Tasks : NextModel(t) /\ UNCHANGED ready
    \/ \E t \in Tasks : QueueGet(t) /\ UNCHANGED ready
    \/ \E t \in Tasks : GetKeyTimeout(t) /\ UNCHANGED ready
    \/ \E t \in Tasks : RequestSuccess(t) /\ UNCHANGED ready
    \/ ReleaseQuarantinedTick

SpecInit == Init /\ [][NextInit]_vars

(* ----------------------------- cancellation ---------------------------- *)

\* The caller cancels the task of request t while it is suspended.  In
\* make_request the CancelledError passes the handlers of lines 92 and 97
\* (it is a BaseException) and leaves call; in Queue.get the getter is
\* withdrawn and a wake-up it had received is passed on.
Cancel(t) ==
    /\ pc[t] \in {"wait_for", "getter_wait", "getter_woken", "make_request"}
    /\ LET p == provider(t)
           q == providers[p]
           passOn == IF pc[t] = "getter_woken" /\ q.keys # <<>> THEN WokenBy(q) ELSE {}
       IN  /\ providers' = [providers EXCEPT ![p].getters =
                   SelectSeq(@, LAMBDA u : u # t /\ u \notin passOn)]
           /\ pc' = SetPc(t, "done", passOn)
    /\ Return(t, Raised("CancelledError", Err("CancelledError", <<>>)))
    /\ UNCHANGED <<events, env, initialized, retired, gateway, loads, instances, group>>

NextCancel ==
    \/ Next
    \/ \E t \in Tasks : Cancel(t) /\ UNCHANGED ready

SpecCancel == Init /\ [][NextCancel]_vars

(* ------------------------ the @observable wrapper ---------------------- *)

\* Event(type, ...) as handed to bus.publish; data is the args of the call,
\* the output preview, or str(e)
Event(type, data) == [type |-> type, data |-> data]

\* what the wrapped function does: execute returns the text of a model or an
\* empty text, or raises the exceptions of LLMGateway.call
Outcomes ==
    { Returned("gemini-2.5-pro"),
      Returned(""),
      Raised("ValueError", Err("ValueError", <<"no_such_group">>)),
      Raised("Exception", Err("IOError", <<"5", "0", "0">>)) }

\* str(result)[:500] if result else "None"
output_preview(out) == IF out.model = "" THEN <<"None">> ELSE <<out.model>>

observed == <<env, initialized, providers, retired, gateway, loads, instances,
              group, idx, available_providers, api_key, last_error, ready>>

\* lines 129-158: the wrapper is called and awaits the publication of
\* EXECUTION_START
WrapperCalled(t) ==
    /\ pc[t] = "idle"
    /\ events' = [events EXCEPT ![t] = Append(@, Event("EXECUTION_START", <<>>))]
    /\ pc' = [pc EXCEPT ![t] = "publish_start"]
    /\ UNCHANGED <<observed, result>>

\* lines 160-162: the publication is over and the wrapped function is awaited
FuncCalled(t) ==
    /\ pc[t] = "publish_start"
    /\ pc' = [pc EXCEPT ![t] = "func"]
    /\ UNCHANGED <<observed, result, events>>

\* an except clause that reports the error and returns instead of raising
OnExceptionSwallows(t, out) ==
    /\ events' = [events EXCEPT ![t] = Append(@, Event("EXECUTION_ERROR", out.error.msg))]
    /\ result' = [result EXCEPT ![t] = Returned("")]

\* lines 176-186: except Exception publishes EXECUTION_ERROR and re-raises
OnException(t, out) ==
    /\ events' = [events EXCEPT ![t] = Append(@, Event("EXECUTION_ERROR", out.error.msg))]
    /\ result' = [result EXCEPT ![t] = out]

\* lines 164-175: the function returned; EXECUTION_COMPLETE is published
OnReturn(t, out) ==
    /\ events' = [events EXCEPT ![t] =
                     Append(@, Event("EXECUTION_COMPLETE", output_preview(out)))]
    /\ result' = [result EXCEPT ![t] = out]

\* the wrapped function ends with outcome out and the wrapper awaits the
\* publication of its second event
FuncEnds(t, out) ==
    /\ pc[t] = "func"
    /\ IF out.status = "returned" THEN OnReturn(t, out) ELSE OnException(t, out)
    /\ pc' = [pc EXCEPT ![t] = "publish_end"]
    /\ UNCHANGED observed

\* the publication is over: return result / raise, through the finally block
WrapperEnds(t) ==
    /\ pc[t] = "publish_end"
    /\ pc' = [pc EXCEPT ![t] = "done"]
    /\ UNCHANGED <<observed, result, events>>

NextObs ==
    \/ \E t \in Tasks : WrapperCalled(t)
    \/ \E t \in Tasks : FuncCalled(t)
    \/ \E t \in Tasks, out \in Outcomes : FuncEnds(t, out)
    \/ \E t \in Tasks : WrapperEnds(t)

SpecObs == Init /\ [][NextObs]_vars

(* ------------------------------ claims --------------------------------- *)

\* the distinct credentials the credential source configures for provider p
Configured(p) == Range(NonBlank(env[p]))

\* task t holds a checked-out credential: get_key returned, release_key not yet called
Holding(t) == pc[t] = "make_request"

HeldBy(p) == {t \in Tasks : Holding(t) /\ provider(t) = p}

RetiredOf(p) == {k \in Configured(p) : <<p, k>> \in retired}

\* task t is about to call get_key for its current candidate
AtCheckout(t) ==
    /\ pc[t] = "loop"
    /\ idx[t] <= Len(model_priority_list(t))
    /\ model_name(t) \in DOMAIN MODELS_REGISTRY
    /\ provider(t) \in available_providers[t]

\* every configured credential of p is held by an in-flight call
AllCheckedOut(p) ==
    /\ p \in DOMAIN providers
    /\ Cardinality(HeldBy(p)) = Cardinality(Configured(p))

\* the step in which the provider call of task t fails with text msg
FailsWith(t, msg) ==
    /\ pc[t] = "make_request"
    /\ pc'[t] = "loop"
    /\ last_error'[t] = Err("IOError", msg)

Has401or403(msg) == Contains(<<"4", "0", "1">>, msg) \/ Contains(<<"4", "0", "3">>, msg)

HasApiKey(msg) == Contains(<<"a", "p", "i", " ", "k", "e", "y">>, msg)

\* C1: for a provider loaded with N credentials, at most N requests hold a
\* checked-out credential of that provider at the same time.
C1_AtMostNCheckedOut ==
    \A p \in Providers : Cardinality(HeldBy(p)) <= Cardinality(Configured(p))

\* C1 witness: every credential of a provider is checked out while one more
\* request is about to check out from that provider.
C1_Witness ==
    \E t \in Tasks :
        /\ AtCheckout(t)
        /\ Configured(provider(t)) # {}
        /\ AllCheckedOut(provider(t))

\* C2: no credential is checked out by two calls at the same time.
C2_NoSharedCredential ==
    \A t, u \in Tasks :
        (t # u /\ Holding(t) /\ Holding(u) /\ provider(t) = provider(u))
            => api_key[t] # api_key[u]

\* C2 witness: two calls hold the two different credentials of one provider
\* whose credential source lists one of them twice.
C2_Witness ==
    \E t, u \in Tasks :
        /\ t # u /\ Holding(t) /\ Holding(u) /\ provider(t) = provider(u)
        /\ api_key[t] # api_key[u]
        /\ Len(NonBlank(env[provider(t)])) > Cardinality(Configured(provider(t)))

\* in this state no retired credential is in the available queue or held
RetiredOutOfCirculation ==
    \A pk \in retired :
        /\ pk[2] \notin Range(providers[pk[1]].keys)
        /\ \A t \in HeldBy(pk[1]) : api_key[t] # pk[2]

\* C3: the set of retired credentials only grows, is always disjoint from the
\* available queue, and no later get_key returns a retired credential.
C3_RetiredIsPermanent ==
    [][retired \subseteq retired' /\ RetiredOutOfCirculation']_vars

\* C3 witness: a request whose first candidate failed with 401, retiring that
\* credential, has since checked out the provider's other credential for its
\* second candidate.
C3_Witness ==
    \E t \in Tasks :
        /\ Holding(t)
        /\ idx[t] = 2
        /\ last_error[t] = Err("IOError", <<"4", "0", "1">>)
        /\ MODELS_REGISTRY[model_priority_list(t)[1]] = provider(t)
        /\ RetiredOf(provider(t)) # {}
        /\ api_key[t] \notin RetiredOf(provider(t))

\* the number of times credential k of provider p exists: in the queue, in
\* the hands of an in-flight call, or retired
Occurrences(p, k) ==
    Cardinality({i \in DOMAIN providers[p].keys : providers[p].keys[i] = k})
    + Cardinality({t \in HeldBy(p) : api_key[t] = k})
    + (IF <<p, k>> \in retired THEN 1 ELSE 0)

C5_SuspendsWhenAllBusy ==
    [][\A t \in Tasks :
          (AtCheckout(t) /\ initialized /\ AllCheckedOut(provider(t)))
              => (idx'[t] = idx[t] /\ last_error'[t] = last_error[t])]_vars

\* C6: in scenario B every one of the 3 execute calls ends with a text result.
C6_ScenarioBAllSucceed ==
    \A t \in Tasks : pc[t] = "done" => result[t].status = "returned"

\* the provider named by a key error of get_key
KeyErrorsOf(t) ==
    {e \in {last_error[t], result[t].error} :
        e.type \in {"NoKeysAvailableError", "GetKeyTimeoutError"}}

\* C7: get_key fails with NoKeysAvailableError only when the provider has zero
\* credentials configured, and with GetKeyTimeoutError only when credentials
\* are configured.
C7_PoolEmptyOnlyWhenNothingConfigured ==
    \A t \in Tasks : \A e \in KeyErrorsOf(t) :
        (e.type = "NoKeysAvailableError") <=> (Configured(e.msg[1]) = {})

\* C8: a provider failure whose message contains 401 or 403 retires the
\* credential used (it is not put back) and advances to the next candidate.
C8_AuthFailureRetires ==
    [][\A t \in Tasks : \A msg \in ProviderMessages :
          (FailsWith(t, msg) /\ Has401or403(msg))
              => /\ <<provider(t), api_key[t]>> \in retired'
                 /\ api_key[t] \notin Range(providers'[provider(t)].keys)
                 /\ providers'[provider(t)].keys = providers[provider(t)].keys
                 /\ idx'[t] = idx[t] + 1]_vars

\* C8 witness: a call failed with a message containing 403 and its credential
\* is retired.
C8_Witness ==
    \E t \in Tasks :
        /\ pc[t] = "loop"
        /\ last_error[t].type = "IOError"
        /\ Contains(<<"4", "0", "3">>, last_error[t].msg)
        /\ <<MODELS_REGISTRY[model_priority_list(t)[idx[t] - 1]], api_key[t]>> \in retired

\* C9: a provider failure whose message contains "api key" and neither 401 nor
\* 403 retires the credential instead of releasing it.
C9_ApiKeyMessageRetires ==
    [][\A t \in Tasks : \A msg \in ProviderMessages :
          (FailsWith(t, msg) /\ HasApiKey(msg) /\ ~Has401or403(msg))
              => /\ <<provider(t), api_key[t]>> \in retired'
                 /\ api_key[t] \notin Range(providers'[provider(t)].keys)]_vars

\* C10: a provider failure that is not an authentication failure puts the
\* credential back into the provider's queue before the next candidate is
\* tried, so a get_key that follows finds it without waiting.
C10_OtherFailureReleases ==
    [][\A t \in Tasks : \A msg \in ProviderMessages :
          (FailsWith(t, msg) /\ ~Has401or403(msg) /\ ~HasApiKey(Lower(msg)))
              => /\ providers'[provider(t)].keys
                        = Append(providers[provider(t)].keys, api_key[t])
                 /\ ~NoKeys(providers', provider(t))
                 /\ <<provider(t), api_key[t]>> \notin retired'
                 /\ idx'[t] = idx[t] + 1]_vars

\* C10 witness: a call failed with a non-authentication error and another
\* request has since checked out the credential it released.
C10_Witness ==
    \E t, u \in Tasks :
        /\ t # u
        /\ last_error[t].type = "IOError"
        /\ ~is_auth_error(last_error[t].msg)
        /\ pc[t] = "loop"
        /\ Holding(u)
        /\ api_key[u] = api_key[t]

\* the candidate list of the request of task t, as configured
CandidateList(t) == MODEL_GROUPS[group[t]]

InFlight(t) == pc[t] \notin {"idle", "done"}

\* C11: when a provider call succeeds the credential goes back to the queue
\* and the text of that call is the result; the request is then finished for
\* good and holds no credential.
C11_SuccessIsTerminal ==
    [][\A t \in Tasks :
          /\ (result[t].status = "pending" /\ result'[t].status = "returned")
                 => /\ pc[t] = "make_request"
                    /\ pc'[t] = "done"
                    /\ result'[t].model = CandidateList(t)[idx[t]]
                    /\ providers'[provider(t)].keys
                           = Append(providers[provider(t)].keys, api_key[t])
          /\ pc[t] = "done"
                 => /\ pc'[t] = "done"
                    /\ result'[t] = result[t]
                    /\ api_key'[t] = NoneKey
                    /\ idx'[t] = idx[t]]_vars

\* C11 witness: a request has returned the text of its second candidate and
\* the credential it used is in the queue again.
C11_Witness ==
    \E t \in Tasks :
        /\ pc[t] = "done"
        /\ result[t].status = "returned"
        /\ result[t].model = CandidateList(t)[2]
        /\ LET p == MODELS_REGISTRY[result[t].model]
           IN  Len(providers[p].keys) = Cardinality(Configured(p))

\* C12: candidates are attempted one at a time in list order, the list is
\* never changed, candidate i+1 is considered only after candidate i was
\* skipped or failed, and a result is that of the candidate at the loop's
\* position.
C12_InListOrder ==
    [][\A t \in Tasks :
          /\ (pc[t] = "idle" /\ pc'[t] = "loop") => idx'[t] = 1
          /\ InFlight(t)
                 => /\ group'[t] = group[t]
                    /\ pc'[t] # "done" => idx'[t] \in {idx[t], idx[t] + 1}
          /\ (InFlight(t) /\ idx'[t] = idx[t] + 1)
                 => /\ pc'[t] = "loop"
                    /\ result'[t].status = "pending"
          /\ (pc[t] # "make_request" /\ pc'[t] = "make_request")
                 => /\ idx'[t] = idx[t]
                    /\ MODELS_REGISTRY[CandidateList(t)[idx[t]]] \in DOMAIN providers
                    /\ api_key'[t] = Head(providers[MODELS_REGISTRY[CandidateList(t)[idx[t]]]].keys)
          /\ (result[t].status = "pending" /\ result'[t].status = "returned")
                 => result'[t].model = CandidateList(t)[idx[t]]]_vars

\* C12 witness: the first candidate failed and the call for the second
\* candidate is under way.
C12_Witness ==
    \E t \in Tasks :
        /\ pc[t] = "make_request"
        /\ idx[t] = 2
        /\ last_error[t].type = "IOError"

\* C13: when the list is exhausted the exception raised carries the last
\* failure observed, which is the failure of the last candidate that had one
\* (a skipped candidate leaves it as it was).
C13_ExhaustionReferencesLastFailure ==
    [][\A t \in Tasks :
          /\ (pc[t] = "loop" /\ pc'[t] = "done")
                 => /\ idx[t] = Len(CandidateList(t)) + 1
                    /\ result'[t] = Raised("Exception", last_error[t])
          /\ (pc[t] = "make_request" /\ pc'[t] = "loop")
                 => last_error'[t].type = "IOError"
          /\ (pc[t] \in {"getter_wait", "getter_woken"} /\ pc'[t] = "loop")
                 => last_error'[t] = Err("GetKeyTimeoutError", <<provider(t)>>)
          /\ (pc[t] = "loop" /\ pc'[t] = "loop" /\ idx'[t] = idx[t] + 1)
                 => last_error'[t] =
                        IF AtCheckout(t)
                        THEN Err("NoKeysAvailableError", <<provider(t)>>)
                        ELSE last_error[t]
          /\ (InFlight(t) /\ pc'[t] # "done" /\ idx'[t] = idx[t])
                 => last_error'[t] = last_error[t]]_vars

\* C13 witness: a request ended with the exhaustion error carrying the
\* provider error of its first candidate, its second candidate having been
\* skipped.
C13_Witness ==
    \E t \in Tasks :
        /\ pc[t] = "done"
        /\ group[t] = "coding_model_group"
        /\ result[t] = Raised("Exception", Err("IOError", <<"5", "0", "0">>))

\* C14: for a known group every failure of a candidate moves the loop to the
\* next candidate, and the only exception that leaves call is the exhaustion
\* error, raised when the loop is past the last candidate.
C14_OnlyExhaustionSurfaces ==
    [][\A t \in Tasks :
          /\ (group'[t] \in DOMAIN MODEL_GROUPS /\ pc[t] # "done"
                  /\ result'[t].status = "raised")
                 => /\ result'[t].raises = "Exception"
                    /\ pc[t] = "loop"
                    /\ idx[t] = Len(CandidateList(t)) + 1
          /\ (InFlight(t) /\ last_error'[t] # last_error[t] /\ last_error'[t] # NoError)
                 => /\ pc'[t] = "loop"
                    /\ idx'[t] = idx[t] + 1
                    /\ result'[t].status = "pending"]_vars

\* C14 witness: a request whose wait for a key of its first candidate timed
\* out has gone on and checked out a key for its second candidate.
C14_Witness ==
    \E t \in Tasks :
        /\ pc[t] = "make_request"
        /\ idx[t] = 2
        /\ last_error[t].type = "GetKeyTimeoutError"

\* C15: a call with an unknown group name raises the unknown-group error at
\* once, takes no key and makes no provider call; every existing pool is as
\* before, and a pool created by the lazy initialization holds all its keys.
C15_UnknownGroupFailsFast ==
    [][\A t \in Tasks :
          (pc[t] = "idle" /\ pc'[t] # "idle" /\ group'[t] \notin DOMAIN MODEL_GROUPS)
              => /\ pc'[t] = "done"
                 /\ result'[t] = Raised("ValueError", Err("ValueError", <<group'[t]>>))
                 /\ retired' = retired
                 /\ api_key' = api_key
                 /\ \A u \in Tasks \ {t} : pc'[u] = pc[u]
                 /\ \A p \in DOMAIN providers : providers'[p] = providers[p]
                 /\ \A p \in DOMAIN providers' \ DOMAIN providers :
                        /\ Range(providers'[p].keys) = Configured(p)
                        /\ Len(providers'[p].keys) = Cardinality(Configured(p))]_vars

\* C15 witness: a call with an unknown group has raised the unknown-group
\* error while another request holds a key.
C15_Witness ==
    \E t, u \in Tasks :
        /\ pc[t] = "done"
        /\ result[t].raises = "ValueError"
        /\ group[t] \notin DOMAIN MODEL_GROUPS
        /\ Holding(u)

\* Scenario A for task t: group [(gemini-2.5-pro, google), (codestral-2501,
\* mistral)], google has one credential, mistral has none
ScenarioA(t) ==
    /\ group[t] = "coding_model_group"
    /\ Cardinality(Configured("google")) = 1
    /\ Configured("mistral") = {}

Transient == Err("IOError", <<"5", "0", "0">>)

\* C16: in scenario A, when the call to the first model fails transiently,
\* the provider's credential is put back in the queue, the second model is
\* skipped without a provider call, and the request ends with the exhaustion
\* error that carries the transient failure.
C16_ScenarioA ==
    [][\A t \in Tasks :
          ScenarioA(t) =>
              /\ (pc[t] = "make_request" /\ idx[t] = 1 /\ last_error'[t] = Transient)
                     => /\ providers'["google"].keys = <<api_key[t]>>
                        /\ pc'[t] = "loop"
                        /\ idx'[t] = 2
              /\ (pc[t] = "loop" /\ idx[t] = 2 /\ last_error[t] = Transient
                      /\ <<pc[t], idx[t]>> # <<pc'[t], idx'[t]>>)
                     => /\ pc'[t] = "loop"
                        /\ idx'[t] = 3
                        /\ last_error'[t] = Transient
                        /\ providers' = providers
              /\ (pc[t] = "loop" /\ idx[t] = 3 /\ last_error[t] = Transient
                      /\ <<pc[t], idx[t]>> # <<pc'[t], idx'[t]>>)
                     => /\ pc'[t] = "done"
                        /\ result'[t] = Raised("Exception", Transient)
                        /\ providers' = providers]_vars

\* C16 witness: scenario A has run to its end: the exhaustion error carries
\* the transient failure and google's credential is in the queue.
C16_Witness ==
    \E t \in Tasks :
        /\ ScenarioA(t)
        /\ pc[t] = "done"
        /\ result[t] = Raised("Exception", Transient)
        /\ Len(providers["google"].keys) = 1

\* Scenario C: cerebras has one credential and it has been retired
ScenarioC ==
    /\ Cardinality(Configured("cerebras")) = 1
    /\ RetiredOf("cerebras") = Configured("cerebras")

PoolEmptyError == Err("NoKeysAvailableError", <<"cerebras">>)

\* C17: in scenario C a request that starts on the group that has cerebras
\* models only finds cerebras among the providers with credentials, gets the
\* pool-empty error for each candidate at once (it never waits and never
\* calls the provider) and ends with the exhaustion error carrying it.
C17_ScenarioC ==
    [][\A t \in Tasks :
          /\ (/\ ScenarioC
              /\ pc[t] = "idle"
              /\ pc'[t] # "idle"
              /\ group'[t] = "classic_secondary_reasoning")
                 => /\ pc'[t] = "loop"
                    /\ idx'[t] = 1
                    /\ "cerebras" \in available_providers'[t]
                    /\ providers' = providers
          /\ (/\ ScenarioC
              /\ group[t] = "classic_secondary_reasoning"
              /\ "cerebras" \in available_providers[t]
              /\ pc[t] = "loop"
              /\ (idx[t] = 1 \/ last_error[t] = PoolEmptyError)
              /\ <<pc[t], idx[t]>> # <<pc'[t], idx'[t]>>)
                 => /\ providers' = providers
                    /\ \/ /\ idx[t] <= 2
                          /\ pc'[t] = "loop"
                          /\ idx'[t] = idx[t] + 1
                          /\ last_error'[t] = PoolEmptyError
                       \/ /\ idx[t] = 3
                          /\ pc'[t] = "done"
                          /\ result'[t] = Raised("Exception", PoolEmptyError)]_vars

\* C17 witness: the only cerebras credential was retired after a 401 of
\* another request, and a request that started afterwards on the cerebras
\* group has ended with the exhaustion error carrying the pool-empty error.
C17_Witness ==
    \E t, u \in Tasks :
        /\ ScenarioC
        /\ group[t] = "classic_secondary_reasoning"
        /\ pc[t] = "done"
        /\ result[t] = Raised("Exception", PoolEmptyError)
        /\ result[u] = Raised("Exception", Err("IOError", <<"4", "0", "1">>))

\* the number of times key k is in the queue of provider p
QueuedIn(provs, p, k) ==
    Cardinality({i \in DOMAIN provs[p].keys : provs[p].keys[i] = k})

Queued(p, k) == QueuedIn(providers, p, k)

\* C18: whatever release_key calls are made for a checked-out credential, the
\* first one wins and the others are no-ops: the queue holds a credential at
\* most once and never holds a credential that was retired.
C18_ReleaseRetireFirstWins ==
    \A p \in DOMAIN providers :
        \A k \in Configured(p) :
            /\ Queued(p, k) <= 1
            /\ <<p, k>> \in retired => Queued(p, k) = 0

\* C19: a request cancelled while it awaits the provider call gives its
\* credential back to the queue.
C19_CancelReleasesHeldKey ==
    [][\A t \in Tasks :
          (Holding(t) /\ result'[t].raises = "CancelledError")
              => QueuedIn(providers', provider(t), api_key[t]) = 1]_vars

\* the credential k of provider p is in the queue or held by a task
InQueueOrHeld(p, k) ==
    Queued(p, k) + Cardinality({t \in Tasks : api_key[t] = k /\ pc[t] # "released"})

\* C20: whatever the order of the first calls of execute, call, get_key and
\* initialize_providers, the .env files are loaded once, the load gives each
\* provider with credentials one queue holding each credential once, no queue
\* is created or dropped afterwards, and one LLMGateway is constructed.
C20_InitializedExactlyOnce ==
    [][/\ loads' <= 1
       /\ instances' <= 1
       /\ initialized' => loads' = 1
       /\ gateway' => (instances' = 1 /\ initialized')
       /\ initialized => DOMAIN providers' = DOMAIN providers
       /\ (~initialized /\ initialized')
             => /\ DOMAIN providers' = {p \in Providers : Configured(p) # {}}
                /\ \A p \in DOMAIN providers' :
                       \A k \in Configured(p) : InQueueOrHeld(p, k)' = 1
                /\ \A p \in DOMAIN providers' :
                       Range(providers'[p].keys) \subseteq Configured(p)]_vars

\* C20 witness: the pools were loaded by a direct get_key call whose caller
\* holds the key, the gateway was then created by an execute whose request is
\* awaiting its provider, and there has been one load and one construction.
C20_Witness ==
    \E t, u \in Tasks :
        /\ pc[t] = "holds_key"
        /\ pc[u] = "make_request"
        /\ gateway
        /\ loads = 1
        /\ instances = 1

\* task t is at the head of the loop with a candidate left, and takes a step
AtCandidate(t) ==
    /\ pc[t] = "loop"
    /\ idx[t] <= Len(CandidateList(t))

StepsFrom(t) == <<pc[t], idx[t]>> # <<pc'[t], idx'[t]>>

\* what a skip leaves alone: the pools, the retired keys, the key manager's
\* initialization, and the request's key, last error and result
SkipFrame(t) ==
    /\ pc'[t] = "loop"
    /\ idx'[t] = idx[t] + 1
    /\ providers' = providers
    /\ retired' = retired
    /\ initialized' = initialized
    /\ loads' = loads
    /\ api_key' = api_key
    /\ last_error'[t] = last_error[t]
    /\ result'[t] = result[t]
    /\ \A u \in Tasks \ {t} : pc'[u] = pc[u]

\* C21: a candidate whose provider is not among the available providers of
\* the request is skipped: get_key is not called, nothing is waited for, no
\* provider call is made and no pool changes.
C21_UnavailableProviderSkipped ==
    [][\A t \in Tasks :
          (/\ AtCandidate(t)
           /\ CandidateList(t)[idx[t]] \in DOMAIN MODELS_REGISTRY
           /\ MODELS_REGISTRY[CandidateList(t)[idx[t]]] \notin available_providers[t]
           /\ StepsFrom(t))
              => SkipFrame(t)]_vars

\* C21 witness: a request has passed its mistral candidate, mistral not being
\* among the available providers, after its google candidate failed.
C21_Witness ==
    \E t \in Tasks :
        /\ pc[t] = "loop"
        /\ group[t] = "coding_model_group"
        /\ idx[t] = 3
        /\ available_providers[t] = {"google", "cerebras"}
        /\ last_error[t].type = "IOError"

\* C22: a model name without an entry in the registry is skipped without a
\* checkout and without ending the request, which goes on with the
\* following candidates.
C22_UnknownModelSkipped ==
    [][\A t \in Tasks :
          (/\ AtCandidate(t)
           /\ CandidateList(t)[idx[t]] \notin DOMAIN MODELS_REGISTRY
           /\ StepsFrom(t))
              => SkipFrame(t)]_vars

\* C22 witness: a request on classic_reasoning has returned the text of
\* mistral-small-2501, the candidate after the unknown gemini-2.5-flash-lite.
C22_Witness ==
    \E t \in Tasks :
        /\ pc[t] = "done"
        /\ group[t] = "classic_reasoning"
        /\ result[t] = Returned("mistral-small-2501")

\* the place of the first occurrence of k in the sequence s
FirstIndex(s, k) == CHOOSE i \in DOMAIN s : s[i] = k /\ \A j \in 1..(i - 1) : s[j] # k

\* q lists the credentials of the source src once each, in the order of
\* their first occurrences
InSourceOrder(q, src) ==
    /\ Range(q) = Range(src)
    /\ \A i, j \in DOMAIN q : i < j => FirstIndex(src, q[i]) < FirstIndex(src, q[j])

\* the keys a step hands to a task
Issued == {<<t, api_key[t]'>> : t \in {u \in Tasks : api_key[u]' \notin {NoneKey, api_key[u]}}}

\* C23: the queue of a provider starts as the credentials of its source in
\* the order of their first occurrences; a step takes the credential at its
\* front for a task, or puts a released credential at its back, or leaves it.
C23_FifoIssuance ==
    [][/\ \A p \in DOMAIN providers' \ DOMAIN providers :
            \/ InSourceOrder(providers'[p].keys, NonBlank(env[p]))
            \/ \E i \in Issued :
                  /\ InSourceOrder(<<i[2]>> \o providers'[p].keys, NonBlank(env[p]))
                  /\ pc'[i[1]] \in {"holds_key", "make_request"}
       /\ \A p \in DOMAIN providers :
            LET old == providers[p].keys
                new == providers'[p].keys
            IN  \/ new = old
                \/ /\ old # <<>>
                   /\ new = Tail(old)
                   /\ \E i \in Issued : i[2] = Head(old)
                \/ \E t \in Tasks :
                      /\ api_key[t] # NoneKey
                      /\ new = Append(old, api_key[t])
       /\ \A i \in Issued :
            \E p \in DOMAIN providers' :
                \/ p \in DOMAIN providers /\ providers[p].keys # <<>>
                      /\ i[2] = Head(providers[p].keys)
                      /\ providers'[p].keys = Tail(providers[p].keys)
                \/ p \notin DOMAIN providers
                      /\ InSourceOrder(<<i[2]>> \o providers'[p].keys, NonBlank(env[p]))]_vars

\* C23 witness: c1 and c2 were issued in the order of the source and released
\* in the opposite order, so that c2 is now the next credential to be issued.
C23_Witness ==
    /\ "cerebras" \in DOMAIN providers
    /\ NonBlank(env["cerebras"]) = <<"c1", "c2", "c1">>
    /\ providers["cerebras"].keys = <<"c2", "c1">>

\* place of task t in the sequence of tasks q
PlaceIn(q, t) == CHOOSE i \in DOMAIN q : q[i] = t

InGetKey(t) == pc[t] \in {"wait_for", "getter_wait", "getter_woken"}

\* Requests a and b are both inside get_key for the same provider and a
\* started to wait before b.  A request suspended as a getter started before
\* every request whose Queue.get has not run yet; a getter that has been
\* woken started before those that have not; otherwise the order is that of
\* the getters or of the ready queue.
StartedWaitingBefore(a, b) ==
    /\ a # b
    /\ InGetKey(a) /\ InGetKey(b)
    /\ provider(a) = provider(b)
    /\ \/ pc[a] \in {"getter_wait", "getter_woken"} /\ pc[b] = "wait_for"
       \/ pc[a] = "getter_woken" /\ pc[b] = "getter_wait"
       \/ pc[a] = "getter_wait" /\ pc[b] = "getter_wait"
             /\ PlaceIn(providers[provider(a)].getters, a)
                    < PlaceIn(providers[provider(a)].getters, b)
       \/ pc[a] = pc[b] /\ pc[a] # "getter_wait"
             /\ PlaceIn(ready, a) < PlaceIn(ready, b)

\* C24: waiters are served first come, first served: a request that started
\* to wait later does not receive a credential while a request that started
\* to wait earlier for the same provider is still waiting.
C24_WaitersServedInOrder ==
    [][\A a, b \in Tasks :
          StartedWaitingBefore(a, b)
              => ~(pc'[b] = "make_request" /\ pc'[a] \in {"getter_wait", "getter_woken"})]_vars

\* C25: a provider whose source yields no credential is no error for the
\* initialization; once initialized, the available providers are exactly
\* those with a loaded credential, and the emptiness test that makes get_key
\* raise NoKeysAvailableError at once is true for every other provider.
C25_NoCredentialsNoPool ==
    initialized =>
        /\ get_available_providers(providers) = {p \in Providers : Configured(p) # {}}
        /\ \A p \in Providers : Configured(p) = {} => NoKeys(providers, p)

\* C25 witness: the key manager is initialized, mistral has no credential and
\* a get_key for mistral has raised NoKeysAvailableError while another task
\* holds a key of a provider that has some.
C25_Witness ==
    /\ initialized
    /\ Configured("mistral") = {}
    /\ \E t, u \in Tasks :
          /\ result[t] = Raised("NoKeysAvailableError",
                                Err("NoKeysAvailableError", <<"mistral">>))
          /\ pc[u] = "holds_key"

C27_CallTerminates ==
    /\ [][\A t \in Tasks :
             /\ (InFlight(t) /\ pc'[t] # "done")
                    => /\ idx'[t] \in {idx[t], idx[t] + 1}
                       /\ idx'[t] <= Len(CandidateList(t)) + 1
             /\ (pc[t] # "loop" /\ pc'[t] = "loop" /\ InFlight(t))
                    => idx'[t] = idx[t] + 1
             /\ (pc[t] # "make_request" /\ pc'[t] = "make_request")
                    => /\ InGetKey(t)
                       /\ idx'[t] = idx[t]
             /\ (InFlight(t) /\ pc'[t] = "done")
                    => \/ result'[t].status = "returned"
                       \/ result'[t] = AllCandidatesExhausted(last_error[t])
                       \/ result'[t] = AllCandidatesExhausted(last_error'[t])]_vars
    /\ \A t \in 1..NumTasks : InFlight(t) ~> (pc[t] = "done")

\* C27 witness: a request has ended with the exhaustion error after a
\* provider call that failed, while another has ended with a result.
C27_Witness ==
    \E t, u \in Tasks :
        /\ pc[t] = "done" /\ pc[u] = "done"
        /\ result[t] = AllCandidatesExhausted(Transient)
        /\ result[u].status = "returned"

\* the task whose step this is: its position changes, and not merely by
\* being woken as a getter
Actor(t) == StepsFrom(t) /\ ~(pc[t] = "getter_wait" /\ pc'[t] = "getter_woken")

\* the credentials in the available queue of provider p
Available(provs, p) == IF p \in DOMAIN provs THEN Range(provs[p].keys) ELSE {}

\* C28: pools are independent. A step of a request at a candidate of
\* provider P (checkout, release, retirement, timeout) leaves the queue of
\* every other provider as it was; after the step every queue holds only
\* credentials configured for its own provider, a held credential belongs
\* to the provider it was checked out from, and no credential is in two
\* queues.
C28_PoolsIndependent ==
    [][/\ \A t \in Tasks :
             (Actor(t) /\ initialized /\ (InGetKey(t) \/ Holding(t)))
                => \A q \in DOMAIN providers \ {provider(t)} :
                       /\ q \in DOMAIN providers'
                       /\ providers'[q] = providers[q]
       /\ \A p \in Providers : Available(providers', p) \subseteq Configured(p)
       /\ \A p, q \in Providers :
             p # q => Available(providers', p) \cap Available(providers', q) = {}
       /\ \A t \in Tasks :
             pc'[t] = "make_request"
                => api_key'[t] \in Configured(MODELS_REGISTRY[CandidateList(t)[idx'[t]]])]_vars

\* C28 witness: a request has returned from a model of one provider, whose
\* queue holds its credentials again, while another request holds a
\* credential of a different provider.
C28_Witness ==
    \E t, u \in Tasks :
        /\ pc[t] = "done" /\ result[t].status = "returned"
        /\ Holding(u)
        /\ LET p == MODELS_REGISTRY[result[t].model]
           IN  /\ p # provider(u)
               /\ Available(providers, p) = Configured(p)
               /\ Available(providers, provider(u)) # Configured(provider(u))

\* the error of a checkout wait that reached GET_KEY_TIMEOUT_SECONDS
TimedOut(t) == Err("GetKeyTimeoutError", <<provider(t)>>)

C30_UninitializedCallServes ==
    \A t \in Tasks :
        (pc[t] = "done" /\ result[t] = AllCandidatesExhausted(NoError))
            => \A i \in DOMAIN CandidateList(t) :
                   CandidateList(t)[i] \in DOMAIN MODELS_REGISTRY
                       => Configured(MODELS_REGISTRY[CandidateList(t)[i]]) = {}

====
